---- MODULE Spec2Model ----
(***************************************************************************)
(* CodeBridge: the context expansion engine.                               *)
(*                                                                         *)
(* DependencyWalker (features/analysis/strategies.ts) walks the relation   *)
(* graph breadth-first from one root file; getImpactAnalysis builds a      *)
(* walker from the configuration; ContextManager.expandContext runs one    *)
(* walk per selected file and merges the related files into the selection. *)
(* The host's language services (link provider, definition provider,       *)
(* document symbols, reference provider) are the environment: their        *)
(* answers are inputs of the actions.                                      *)
(*                                                                         *)
(* Strings that the code inspects character by character (paths, exclusion *)
(* patterns, regular expressions) are sequences of one-character strings.  *)
(***************************************************************************)
EXTENDS Integers, Sequences, FiniteSets, TLC

(***************************************************************************)
(* Bounds of the model.                                                    *)
(***************************************************************************)
\* longest candidate list one provider call returns
MaxCands == 2
\* largest finite file budget (maxFiles) tried; 0 is "unlimited"
MaxBudget == 2
\* most files in the user's selection
MaxSeeds == 2

(***************************************************************************)
(* String helpers (String.prototype.startsWith / endsWith / includes /     *)
(* replace with a global pattern).                                         *)
(***************************************************************************)
Drop(s, k) == SubSeq(s, k + 1, Len(s))

StartsWith(s, pre) ==
  /\ Len(pre) <= Len(s)
  /\ SubSeq(s, 1, Len(pre)) = pre

EndsWith(s, suf) ==
  /\ Len(suf) <= Len(s)
  /\ SubSeq(s, Len(s) - Len(suf) + 1, Len(s)) = suf

Includes(s, sub) ==
  \E i \in 0..(Len(s) - Len(sub)) : SubSeq(s, i + 1, i + Len(sub)) = sub

HasChar(s, c) == \E i \in DOMAIN s : s[i] = c

\* s.replace(/pat/g, rep) for a pattern that matches the literal text pat:
\* leftmost matches, not overlapping, the replacement not rescanned
RECURSIVE ReplaceAll(_, _, _)
ReplaceAll(s, pat, rep) ==
  IF s = <<>> THEN <<>>
  ELSE IF StartsWith(s, pat) THEN rep \o ReplaceAll(Drop(s, Len(pat)), pat, rep)
  ELSE <<Head(s)>> \o ReplaceAll(Tail(s), pat, rep)

\* relativePath.replace(/\\/g, '/')
NormalizeSlashes(s) == [i \in DOMAIN s |-> IF s[i] = "\\" THEN "/" ELSE s[i]]

\* the 'i' flag of the compiled expression: letters compare by their lower case
UpperCase == <<"A","B","C","D","E","F","G","H","I","J","K","L","M",
               "N","O","P","Q","R","S","T","U","V","W","X","Y","Z">>
LowerCase == <<"a","b","c","d","e","f","g","h","i","j","k","l","m",
               "n","o","p","q","r","s","t","u","v","w","x","y","z">>
ToLower(c) ==
  IF \E i \in DOMAIN UpperCase : UpperCase[i] = c
  THEN LowerCase[CHOOSE i \in DOMAIN UpperCase : UpperCase[i] = c]
  ELSE c

(***************************************************************************)
(* globToRegex (core/utils.ts): the text of the regular expression, then   *)
(* its matching.                                                           *)
(***************************************************************************)
\* the characters of /[.+^${}()|[\]\\*?]/
RegexSpecials == {".", "+", "^", "$", "{", "}", "(", ")", "|", "[", "]", "\\", "*", "?"}

\* p.replace(/[.+^${}()|[\]\\*?]/g, '\\$&')
RECURSIVE EscapeRegex(_)
EscapeRegex(s) ==
  IF s = <<>> THEN <<>>
  ELSE (IF Head(s) \in RegexSpecials THEN <<"\\", Head(s)>> ELSE <<Head(s)>>)
       \o EscapeRegex(Tail(s))

\* the four texts the replace calls look for, and what they put
EscStarStarSlash == <<"\\", "*", "\\", "*", "\\", "/">>
EscStarStar == <<"\\", "*", "\\", "*">>
EscStar == <<"\\", "*">>
EscQuestion == <<"\\", "?">>
ReOptSegments == <<"(", "?", ":", ".", "*", "/", ")", "?">>
ReAnyRun == <<".", "*">>
ReSegmentRun == <<"[", "^", "/", "]", "*">>
ReAnyChar == <<".">>

\* the source of the expression between ^ and $
GlobRegexSource(glob) ==
  LET p0 == NormalizeSlashes(glob)
      p == IF ~HasChar(p0, "/") THEN <<"*", "*", "/">> \o p0 ELSE p0
      escaped == EscapeRegex(p)
      r1 == ReplaceAll(escaped, EscStarStarSlash, ReOptSegments)
      r2 == ReplaceAll(r1, EscStarStar, ReAnyRun)
      r3 == ReplaceAll(r2, EscStar, ReSegmentRun)
  IN ReplaceAll(r3, EscQuestion, ReAnyChar)

\* the expression's source read as the RegExp constructor reads it
RECURSIVE RegexTokens(_)
RegexTokens(r) ==
  IF r = <<>> THEN <<>>
  ELSE IF StartsWith(r, ReOptSegments)
    THEN <<[t |-> "optsegs"]>> \o RegexTokens(Drop(r, Len(ReOptSegments)))
  ELSE IF StartsWith(r, ReAnyRun)
    THEN <<[t |-> "anyrun"]>> \o RegexTokens(Drop(r, Len(ReAnyRun)))
  ELSE IF StartsWith(r, ReSegmentRun)
    THEN <<[t |-> "segrun"]>> \o RegexTokens(Drop(r, Len(ReSegmentRun)))
  ELSE IF Head(r) = "."
    THEN <<[t |-> "any"]>> \o RegexTokens(Tail(r))
  ELSE IF Head(r) = "\\" /\ Len(r) >= 2
    THEN <<[t |-> "lit", c |-> r[2]]>> \o RegexTokens(Drop(r, 2))
  ELSE <<[t |-> "lit", c |-> Head(r)]>> \o RegexTokens(Tail(r))

\* whether the token list matches the whole of s (the expression is anchored)
RECURSIVE RegexMatch(_, _)
RegexMatch(ts, s) ==
  IF ts = <<>> THEN s = <<>>
  ELSE LET tk == Head(ts)
           rest == Tail(ts)
       IN CASE tk.t = "lit" ->
                 /\ s # <<>>
                 /\ ToLower(Head(s)) = ToLower(tk.c)
                 /\ RegexMatch(rest, Tail(s))
            [] tk.t = "any" ->
                 /\ s # <<>>
                 /\ RegexMatch(rest, Tail(s))
            [] tk.t = "anyrun" ->
                 \E k \in 0..Len(s) : RegexMatch(rest, Drop(s, k))
            [] tk.t = "segrun" ->
                 \E k \in 0..Len(s) :
                   /\ \A i \in 1..k : s[i] # "/"
                   /\ RegexMatch(rest, Drop(s, k))
            [] tk.t = "optsegs" ->
                 \/ RegexMatch(rest, s)
                 \/ \E k \in 1..Len(s) : s[k] = "/" /\ RegexMatch(rest, Drop(s, k))

\* globToRegex(glob).test(path)
globToRegex(glob, path) == RegexMatch(RegexTokens(GlobRegexSource(glob)), path)

(***************************************************************************)
(* isIgnored (core/utils.ts).                                              *)
(***************************************************************************)
\* the pattern taken as it is written
StripTrailingSlashNever(p) == p

\* p.replace(/\/$/, '')
StripTrailingSlash(p) ==
  IF p # <<>> /\ p[Len(p)] = "/" THEN SubSeq(p, 1, Len(p) - 1) ELSE p

\* the body of the loop for one pattern
PatternIgnores(normalizedPath, pattern) ==
  LET p == NormalizeSlashes(pattern)
  IN IF ~HasChar(p, "*") /\ ~HasChar(p, "?")
     THEN LET cleanPattern == StripTrailingSlash(p)
          IN \/ normalizedPath = cleanPattern
             \/ StartsWith(normalizedPath, cleanPattern \o <<"/">>)
             \/ Includes(normalizedPath, <<"/">> \o cleanPattern \o <<"/">>)
             \/ EndsWith(normalizedPath, <<"/">> \o cleanPattern)
     ELSE globToRegex(p, normalizedPath)

isIgnored(relativePath, patterns) ==
  /\ patterns # <<>>
  /\ \E i \in DOMAIN patterns :
       PatternIgnores(NormalizeSlashes(relativePath), patterns[i])

(***************************************************************************)
(* The files of the model and what the workspace API says of each.        *)
(***************************************************************************)
FileA == "file:/p/a.t"
FileB == "file:/p/s/b.t"
FileC == "file:/p/n/c.t"
FileD == "file:/p/d.t"
FileOut == "file:/o/z.t"
FileWeb == "https://w"
\* a chain of files of the workspace folder, longer than the deepest walk
ChainFiles == <<"file:/p/k1.t", "file:/p/k2.t", "file:/p/k3.t", "file:/p/k4.t",
                "file:/p/k5.t", "file:/p/k6.t">>
ChainDigits == <<"1", "2", "3", "4", "5", "6">>
ChainUris == {ChainFiles[i] : i \in DOMAIN ChainFiles}
\* the files the user selects from
SeedFiles == {FileA, FileB, FileC, FileD}
\* the targets a provider names when it answers freely
BaseUris == SeedFiles \cup {FileOut, FileWeb}
\* a directory of the workspace folder, the file in it and the file in its
\* subdirectory n
DirQ == "file:/p/q"
FileX == "file:/p/q/x.t"
FileY == "file:/p/q/n/y.t"
Directories == {DirQ}
DirectoryFiles == {FileX, FileY}
\* every Uri of the model
Uris == BaseUris \cup ChainUris \cup Directories \cup DirectoryFiles
\* the files of the workspace folder /p
WorkspaceFiles == SeedFiles \cup ChainUris \cup DirectoryFiles
\* a link without target, a location without uri
NoTarget == "undefined"

\* uri.scheme
Scheme(uri) == IF uri = FileWeb THEN "https" ELSE "file"

\* vscode.workspace.getWorkspaceFolder(uri) !== undefined
getWorkspaceFolder(uri) == uri \in WorkspaceFiles \cup Directories

\* vscode.workspace.asRelativePath(uri, false)
asRelativePath(uri) ==
  CASE uri = FileA -> <<"a", ".", "t">>
    [] uri = FileB -> <<"s", "/", "b", ".", "t">>
    [] uri = FileC -> <<"n", "/", "c", ".", "t">>
    [] uri = FileD -> <<"d", ".", "t">>
    [] uri = FileOut -> <<"/", "o", "/", "z", ".", "t">>
    [] uri = DirQ -> <<"q">>
    [] uri = FileX -> <<"q", "/", "x", ".", "t">>
    [] uri = FileY -> <<"q", "/", "n", "/", "y", ".", "t">>
    [] uri \in ChainUris ->
         <<"k", ChainDigits[CHOOSE i \in DOMAIN ChainFiles : ChainFiles[i] = uri], ".", "t">>
    [] OTHER -> <<"/", "w">>

\* the values of the setting filters.excludes tried
ExcludeSettings ==
  { << <<"n">> >>,
    << <<"s", "/", "*", "*">> >> }

\* ConfigEngine.resolveExcludes: the extension's excludes, then '**/.git'
resolveExcludes(extensionExcludes) ==
  extensionExcludes \o << <<"*", "*", "/", ".", "g", "i", "t">> >>

(***************************************************************************)
(* State.                                                                  *)
(***************************************************************************)
VARIABLES
  host,        \* the language services: what they may answer, whether they may throw
  settings,    \* ConfigEngine.get('copy'): excludePatterns, analysis.maxFiles, analysis.symbolKinds
  initial,     \* expandContext: the selected Uris
  config,      \* the call: which function is entered, enabled, strategy, maxFiles
  token,       \* WorkflowContext.token: "undefined", or a CancellationToken that
               \* is "live" or "cancelled"
  pc,          \* where the expansion stands
  finalUris,   \* expandContext: the set returned
  addedCount,  \* expandContext
  seedIndex,   \* expandContext: index into initial of the for loop
  analysis,    \* getImpactAnalysis: the AnalysisResult of the last walk
  options,     \* DependencyWalker.options
  visited,     \* DependencyWalker.visited
  queue,       \* DependencyWalker.queue
  results,     \* DependencyWalker.results
  current,     \* the entry processNode is working on
  pushed,      \* every entry queue.push has taken in this walk, in order
  revisit,     \* whether addToQueue was given the root again ("seed"), a file of
               \* results again ("result"), in this walk
  rejected,    \* why isAllowed has turned candidates down in this walk: "outside"
               \* (not a file of a workspace folder), "excluded" (an ignored path)
  invoked,     \* the host commands executed in this call
  failed,      \* the calls that have thrown in this call, as <<seedIndex, kind>>
               \* (<<0, "stat">>: the stat or the listing of a candidate):
               \* "seed" (the root could not be opened), "open" (another file
               \* could not be opened), "call" (a provider command threw)
  tracing,     \* whether revisit, rejected, invoked and failed are recorded
  expandedUris, \* ContextExpansionStep: ctx.expandedUris, as a set
  call,        \* a function of core/utils.ts or core/config.ts called on its own:
               \* its name, its arguments and, once it has returned, its result
  generator,   \* generateFilesFromLlmOutput: the batch, the files on disk, the
               \* overwrite policy
  statusBar,   \* StatusBarManager: the status shown and the pending timers
  peer         \* a second getImpactAnalysis running at the same time, for another
               \* file of the chunk: its position, its root and its own walker

vars == <<host, settings, initial, config, token, pc, finalUris, addedCount, seedIndex,
          analysis, options, visited, queue, results, current, pushed, revisit,
          rejected, invoked, failed, tracing, expandedUris, call, generator,
          statusBar, peer>>

walkerVars == <<options, visited, queue, results, current, pushed, revisit, rejected>>
unitVars == <<call, generator, statusBar>>
callVars == <<host, settings, initial, config, token, tracing, expandedUris, peer,
              unitVars>>
coordVars == <<finalUris, addedCount, seedIndex, analysis>>

\* the lists of at most n elements of S
SeqsUpTo(S, n) == UNION {[1..k -> S] : k \in 0..n}

NoOptions == [excludePatterns |-> <<>>, maxFiles |-> 0, maxDepth |-> 1,
              strategy |-> "none", symbolKinds |-> FALSE]
NoEntry == [uri |-> NoTarget, depth |-> 0]
NoLog == [text |-> "", strategy |-> "none", count |-> 0]
NoAnalysis == [log |-> NoLog, relatedUris |-> <<>>]

(***************************************************************************)
(* DependencyWalker.                                                       *)
(***************************************************************************)
\* the three fields as one value
Walker == [visited |-> visited, queue |-> queue, results |-> results, pushed |-> pushed,
           revisit |-> revisit, rejected |-> rejected]

\* addToQueue without the check of visited
addToQueueUnchecked(w, uri, depth) ==
  [w EXCEPT !.visited = @ \cup {uri},
            !.results = IF depth > 0 THEN Append(@, uri) ELSE @,
            !.queue = Append(@, [uri |-> uri, depth |-> depth]),
            !.pushed = Append(@, [uri |-> uri, depth |-> depth])]

\* addToQueue that puts the entry at the head of the queue
addToQueueFront(w, uri, depth) ==
  IF uri \notin w.visited
  THEN [w EXCEPT !.visited = @ \cup {uri},
                 !.results = IF depth > 0 THEN Append(@, uri) ELSE @,
                 !.queue = <<[uri |-> uri, depth |-> depth]>> \o @,
                 !.pushed = Append(@, [uri |-> uri, depth |-> depth])]
  ELSE w

\* addToQueue that emits the entries of depth 0 too
addToQueueEmitsAll(w, uri, depth) ==
  IF uri \notin w.visited
  THEN [w EXCEPT !.visited = @ \cup {uri},
                 !.results = Append(@, uri),
                 !.queue = Append(@, [uri |-> uri, depth |-> depth]),
                 !.pushed = Append(@, [uri |-> uri, depth |-> depth])]
  ELSE w

addToQueue(w, uri, depth) ==
  IF uri \notin w.visited
  THEN [w EXCEPT !.visited = @ \cup {uri},
                 !.results = IF depth > 0 THEN Append(@, uri) ELSE @,
                 !.queue = Append(@, [uri |-> uri, depth |-> depth]),
                 !.pushed = Append(@, [uri |-> uri, depth |-> depth])]
  ELSE [w EXCEPT !.revisit = @ \cup (IF ~tracing THEN {}
                                      ELSE IF uri = w.pushed[1].uri THEN {"seed"}
                                      ELSE {"result"})]

\* isIgnored on the model's files and pattern lists, computed once
IgnoredUris ==
  [patterns \in {resolveExcludes(e) : e \in ExcludeSettings} |->
     {uri \in Uris : isIgnored(asRelativePath(uri), patterns)}]

\* isAllowed without the exclusion patterns
isAllowedAnyPath(uri) ==
  /\ Scheme(uri) \in {"file", "vscode-vfs"}
  /\ getWorkspaceFolder(uri)

isAllowed(uri) ==
  /\ Scheme(uri) \in {"file", "vscode-vfs"}
  /\ getWorkspaceFolder(uri)
  /\ uri \notin IgnoredUris[options.excludePatterns]

\* maxFiles > 0 && results.length >= maxFiles
BudgetReached(w) == options.maxFiles > 0 /\ Len(w.results) >= options.maxFiles

\* if (target && this.isAllowed(target)) this.addToQueue(target, depth)
addIfAllowed(w, target, depth) ==
  IF target # NoTarget /\ isAllowed(target)
  THEN addToQueue(w, target, depth)
  ELSE [w EXCEPT !.rejected =
                   @ \cup (IF ~tracing \/ target = NoTarget THEN {}
                           ELSE IF Scheme(target) \in {"file", "vscode-vfs"}
                                   /\ getWorkspaceFolder(target)
                           THEN {"excluded"}
                           ELSE {"outside"})]

\* the loops taken from the last target found to the first
RECURSIVE addTargetsReversed(_, _, _)
addTargetsReversed(w, targets, depth) ==
  IF targets = <<>> THEN w
  ELSE addTargetsReversed(addIfAllowed(w, targets[Len(targets)], depth),
                          SubSeq(targets, 1, Len(targets) - 1), depth)

\* the loops of processNode and resolveRelativeImports over the targets found
RECURSIVE addTargets(_, _, _)
addTargets(w, targets, depth) ==
  IF targets = <<>> THEN w
  ELSE addTargets(addIfAllowed(w, Head(targets), depth), Tail(targets), depth)

\* the loops of resolveSymbolReferences over the references found
RECURSIVE addReferences(_, _, _)
addReferences(w, refs, depth) ==
  IF refs = <<>> \/ BudgetReached(w) THEN w
  ELSE addReferences(addIfAllowed(w, Head(refs), depth), Tail(refs), depth)

(***************************************************************************)
(* The host.  With host.fixed the providers answer from one relation       *)
(* graph; otherwise every call may return any list of at most MaxCands of  *)
(* the targets host.names.  With host.fails a provider call may throw.     *)
(***************************************************************************)
NoGraph == [u \in Uris |-> <<>>]
AnyHost == [fixed |-> FALSE, fails |-> TRUE, names |-> BaseUris \cup {NoTarget},
            links |-> NoGraph, imports |-> NoGraph, references |-> NoGraph]

\* the three relations
Kinds == {"links", "imports", "references"}

\* a host that answers from one relation graph and never throws
GraphHost(links, imports, references) ==
  [fixed |-> TRUE, fails |-> FALSE, names |-> {},
   links |-> links, imports |-> imports, references |-> references]

\* the acyclic graphs over the files a, b, c, d: an edge runs from a file to a
\* later one and belongs to one relation
DagOrder == <<FileA, FileB, FileC, FileD>>
DagPairs == {p \in (1..4) \X (1..4) : p[1] < p[2]}
DagRelation(label, kind) ==
  [u \in Uris |->
     IF \E i \in 1..4 : DagOrder[i] = u
     THEN LET i == CHOOSE i \in 1..4 : DagOrder[i] = u
          IN SelectSeq(DagOrder,
                       LAMBDA v : \E j \in 1..4 :
                                  /\ DagOrder[j] = v
                                  /\ <<i, j>> \in DagPairs
                                  /\ label[<<i, j>>] = kind)
     ELSE <<>>]
DagHosts ==
  {GraphHost(DagRelation(label, "links"), DagRelation(label, "imports"),
             DagRelation(label, "references")) :
     label \in [DagPairs -> Kinds \cup {"none"}]}

\* the chains a -> k1 -> ... -> k6, each step in one relation
ChainNodes == <<FileA>> \o ChainFiles
ChainRelation(stepKind, kind) ==
  [u \in Uris |->
     IF \E i \in DOMAIN ChainFiles : ChainNodes[i] = u /\ stepKind[i] = kind
     THEN <<ChainFiles[CHOOSE i \in DOMAIN ChainFiles : ChainNodes[i] = u]>>
     ELSE <<>>]
ChainHosts ==
  {GraphHost(ChainRelation(stepKind, "links"), ChainRelation(stepKind, "imports"),
             ChainRelation(stepKind, "references")) :
     stepKind \in [DOMAIN ChainFiles -> {"links", "imports"}]}

\* what the provider `kind` can answer for uri
Answers(kind, uri) ==
  IF host.fixed THEN {host[kind][uri]} ELSE SeqsUpTo(host.names, MaxCands)

(***************************************************************************)
(* getImpactAnalysis (features/analysis/strategies.ts).                    *)
(***************************************************************************)
\* where control goes when getImpactAnalysis returns
AfterAnalysis == IF config.entry = "getImpactAnalysis" THEN "returned" ELSE "merge"

\* const targetDepth = strategy === 'deep' ? 5 : 1
targetDepth(strategy) == IF strategy = "deep" THEN 5 ELSE 1

\* the log line and the AnalysisResult built from the walk's result
ImpactResult(dependencies, strategy) ==
  [relatedUris |-> dependencies,
   log |-> IF Len(dependencies) > 0
           THEN [text |-> "DEPENDENCIES: Bundled files", strategy |-> strategy,
                 count |-> Len(dependencies)]
           ELSE IF strategy = "deep"
           THEN [text |-> "DEEP SCAN: No local dependencies found", strategy |-> strategy,
                 count |-> 0]
           ELSE NoLog]

\* the analysis that walks under every strategy
SkipsAnalysisNever(strategy) == FALSE

\* new DependencyWalker(options)
NewWalker == [visited |-> {}, queue |-> <<>>, results |-> <<>>,
              pushed |-> <<>>, revisit |-> {}, rejected |-> {}]

\* if (strategy === 'none') return { log: null, relatedUris: [] }
SkipsAnalysis(strategy) == strategy = "none"

\* the call, up to the first pass through the head of walk's loop
getImpactAnalysis ==
  /\ pc = "getImpactAnalysis"
  /\ LET uri == initial[seedIndex]
         strategy == config.strategy
     IN IF SkipsAnalysis(strategy)
        THEN /\ analysis' = NoAnalysis
             /\ pc' = AfterAnalysis
             /\ UNCHANGED walkerVars
        ELSE LET w == addToQueue(NewWalker, uri, 0)
             IN /\ options' = [excludePatterns |-> settings.excludePatterns,
                               maxFiles |-> settings.maxFiles,
                               maxDepth |-> targetDepth(strategy),
                               strategy |-> strategy,
                               symbolKinds |-> settings.symbolKinds]
                /\ visited' = w.visited
                /\ queue' = w.queue
                /\ results' = w.results
                /\ pushed' = w.pushed
                /\ revisit' = w.revisit
                /\ rejected' = w.rejected
                /\ current' = NoEntry
                /\ pc' = "walk"
                /\ UNCHANGED analysis
  /\ UNCHANGED <<callVars, finalUris, addedCount, seedIndex, invoked, failed>>

(***************************************************************************)
(* DependencyWalker.walk: one pass through the loop.                       *)
(***************************************************************************)
\* the limit tested one step late
AtHorizonLate(entry) == entry.depth > options.maxDepth

\* current.depth >= this.options.maxDepth
AtHorizon(entry) == entry.depth >= options.maxDepth

\* the loop ends: the queue is empty or the budget is reached
WalkReturn ==
  /\ pc = "walk"
  /\ queue = <<>> \/ BudgetReached(Walker)
  /\ analysis' = ImpactResult(results, options.strategy)
  /\ pc' = AfterAnalysis
  /\ UNCHANGED <<callVars, walkerVars, finalUris, addedCount, seedIndex, invoked, failed>>

\* if (current.depth >= this.options.maxDepth) continue
WalkSkip ==
  /\ pc = "walk"
  /\ queue # <<>> /\ ~BudgetReached(Walker)
  /\ AtHorizon(Head(queue))
  /\ queue' = Tail(queue)
  /\ UNCHANGED <<callVars, coordVars, options, visited, results, current, pushed,
                 revisit, rejected, pc, invoked, failed>>

\* await this.processNode(current.uri, current.depth)
WalkProcess ==
  /\ pc = "walk"
  /\ queue # <<>> /\ ~BudgetReached(Walker)
  /\ ~AtHorizon(Head(queue))
  /\ queue' = Tail(queue)
  /\ current' = Head(queue)
  /\ pc' = "links"
  /\ UNCHANGED <<callVars, coordVars, options, visited, results, pushed, revisit,
                 rejected, invoked, failed>>

\* vscode.commands.executeCommand, openTextDocument: the calls made are recorded
Invoke(commands) == invoked' = IF tracing THEN invoked \cup commands ELSE invoked

\* a call of the current node has thrown
Fail(kind) == failed' = IF tracing THEN failed \cup {<<seedIndex, kind>>} ELSE failed

\* the walker's fields after a step that leaves it as w
SetWalker(w) ==
  /\ visited' = w.visited
  /\ queue' = w.queue
  /\ results' = w.results
  /\ pushed' = w.pushed
  /\ revisit' = w.revisit
  /\ rejected' = w.rejected

(***************************************************************************)
(* DependencyWalker.processNode.                                           *)
(***************************************************************************)
\* openTextDocument, executeLinkProvider and the loop over the links
processNode ==
  /\ pc = "links"
  /\ current.uri \notin Directories
  /\ \E links \in Answers("links", current.uri) :
       SetWalker(addTargets(Walker, links, current.depth + 1))
  /\ Invoke({"openTextDocument", "executeLinkProvider"})
  /\ pc' = "imports"
  /\ UNCHANGED <<callVars, coordVars, options, current, failed>>

\* one element of locs is the location one import token resolves to
resolveRelativeImports ==
  /\ pc = "imports"
  /\ \E locs \in Answers("imports", current.uri) :
       /\ SetWalker(addTargets(Walker, locs, current.depth + 1))
       /\ Invoke(IF locs # <<>> THEN {"executeDefinitionProvider"} ELSE {})
  /\ pc' = IF options.strategy = "deep" /\ options.symbolKinds
           THEN "references" ELSE "walk"
  /\ UNCHANGED <<callVars, coordVars, options, current, failed>>

\* one element of refs is one location the reference provider returns for a symbol
resolveSymbolReferences ==
  /\ pc = "references"
  /\ IF BudgetReached(Walker)
     THEN UNCHANGED <<visited, queue, results, pushed, revisit, rejected, invoked>>
     ELSE \E refs \in Answers("references", current.uri) :
            /\ SetWalker(addReferences(Walker, refs, current.depth + 1))
            /\ Invoke({"executeDocumentSymbolProvider"}
                        \cup (IF refs # <<>> THEN {"executeReferenceProvider"} ELSE {}))
  /\ pc' = "walk"
  /\ UNCHANGED <<callVars, coordVars, options, current, failed>>

\* processNode that lets the error escape: walk rejects
processNodeThrowsAborts ==
  /\ host.fails
  /\ pc \in {"links", "references"}
  /\ pc' = "rejected"
  /\ UNCHANGED <<callVars, coordVars, walkerVars, invoked, failed>>

\* openTextDocument, the link provider or the symbol provider throws:
\* catch (e) {} ends processNode.  A directory is never opened as a text
\* document: openTextDocument rejects
processNodeThrows ==
  /\ \/ /\ pc = "links"
        /\ \/ /\ host.fails \/ current.uri \in Directories
              /\ Invoke({"openTextDocument"})
              /\ Fail(IF current.depth = 0 THEN "seed" ELSE "open")
           \/ /\ host.fails /\ current.uri \notin Directories
              /\ Invoke({"openTextDocument", "executeLinkProvider"})
              /\ Fail("call")
     \/ /\ pc = "references"
        /\ host.fails
        /\ ~BudgetReached(Walker)
        /\ Invoke({"executeDocumentSymbolProvider"})
        /\ Fail("call")
  /\ pc' = "walk"
  /\ UNCHANGED <<callVars, coordVars, walkerVars>>

(***************************************************************************)
(* ContextManager.expandContext (features/analysis/index.ts).              *)
(***************************************************************************)
expandContext ==
  /\ pc = "expandContext"
  /\ finalUris' = {initial[i] : i \in DOMAIN initial}
  /\ addedCount' = 0
  /\ seedIndex' = 1
  /\ pc' = IF ~config.enabled \/ config.strategy = "none" THEN "returned" ELSE "forSeed"
  /\ UNCHANGED <<callVars, walkerVars, analysis, invoked, failed>>

\* the head of the loop over initial
ForSeed ==
  /\ pc = "forSeed"
  /\ pc' = IF seedIndex > Len(initial) \/ addedCount >= config.maxFiles
           THEN "returned" ELSE "getImpactAnalysis"
  /\ UNCHANGED <<callVars, coordVars, walkerVars, invoked, failed>>

\* the loop over analysis.relatedUris without its own test of the budget
RECURSIVE mergeRelatedNoBudget(_, _)
mergeRelatedNoBudget(acc, related) ==
  IF related = <<>> THEN acc
  ELSE mergeRelatedNoBudget(IF Head(related) \notin acc.uris
                            THEN [uris |-> acc.uris \cup {Head(related)},
                                  addedCount |-> acc.addedCount + 1]
                            ELSE acc,
                            Tail(related))

\* the loop over analysis.relatedUris that counts every related file, also
\* one the set already holds
RECURSIVE mergeRelatedCountsAll(_, _)
mergeRelatedCountsAll(acc, related) ==
  IF related = <<>> \/ acc.addedCount >= config.maxFiles THEN acc
  ELSE mergeRelatedCountsAll([uris |-> acc.uris \cup {Head(related)},
                              addedCount |-> acc.addedCount + 1],
                             Tail(related))

\* the loop over analysis.relatedUris
RECURSIVE mergeRelated(_, _)
mergeRelated(acc, related) ==
  IF related = <<>> \/ acc.addedCount >= config.maxFiles THEN acc
  ELSE mergeRelated(IF Head(related) \notin acc.uris
                    THEN [uris |-> acc.uris \cup {Head(related)},
                          addedCount |-> acc.addedCount + 1]
                    ELSE acc,
                    Tail(related))

MergeAnalysis ==
  /\ pc = "merge"
  /\ LET acc == mergeRelated([uris |-> finalUris, addedCount |-> addedCount],
                             analysis.relatedUris)
     IN /\ finalUris' = acc.uris
        /\ addedCount' = acc.addedCount
  /\ seedIndex' = seedIndex + 1
  /\ analysis' = NoAnalysis   \* const analysis: out of scope after the iteration
  /\ pc' = "forSeed"
  /\ UNCHANGED <<callVars, walkerVars, invoked, failed>>

(***************************************************************************)
(* Specification.                                                          *)
(***************************************************************************)
\* the calls: expandContext(initial, config), or getImpactAnalysis(uri, strategy)
\* entered directly, as getFileMetadata enters it
Calls ==
  {[entry |-> "expandContext", enabled |-> e, strategy |-> s, maxFiles |-> m] :
     e \in BOOLEAN, s \in {"none", "shallow", "deep"}, m \in 0..MaxBudget}
  \cup
  {[entry |-> "getImpactAnalysis", enabled |-> TRUE, strategy |-> s, maxFiles |-> 0] :
     s \in {"none", "shallow", "deep"}}

Settings ==
  [excludePatterns : {resolveExcludes(e) : e \in ExcludeSettings},
   maxFiles : 0..MaxBudget,
   symbolKinds : BOOLEAN]

\* no function called on its own, no generation, no status bar item
NoCall == [fn |-> "none"]
NoGenerator == [pc |-> "absent"]
NoStatusBar == [pc |-> "absent"]

\* the state when the call is entered
NoPeer == [pc |-> "absent", seed |-> NoTarget, current |-> NoEntry, walker |-> NewWalker]

InitCall ==
  /\ config \in Calls
  /\ config.entry = "getImpactAnalysis" => Len(initial) = 1
  /\ pc = config.entry
  /\ finalUris = {}
  /\ addedCount = 0
  /\ seedIndex = 1
  /\ analysis = NoAnalysis
  /\ options = NoOptions
  /\ visited = {}
  /\ queue = <<>>
  /\ results = <<>>
  /\ current = NoEntry
  /\ pushed = <<>>
  /\ revisit = {}
  /\ rejected = {}
  /\ invoked = {}
  /\ failed = {}
  /\ expandedUris = {}
  /\ call = NoCall
  /\ generator = NoGenerator
  /\ statusBar = NoStatusBar

\* getImpactAnalysis entered directly: one walk, under every setting
InitWalk ==
  /\ host = AnyHost
  /\ settings \in Settings
  /\ initial \in SeqsUpTo(SeedFiles, 1)
  /\ token = "undefined"
  /\ tracing = TRUE
  /\ peer = NoPeer
  /\ InitCall
  /\ config.entry = "getImpactAnalysis"

\* expandContext on a selection of files, the walker's own budget at its
\* default (analysisConfig.maxFiles ?? 0); the host's calls are recorded only
\* under strategy none
InitSelection ==
  /\ host = AnyHost
  /\ settings \in {s \in Settings : s.maxFiles = 0}
  /\ initial \in SeqsUpTo(SeedFiles, MaxSeeds)
  /\ InitCall
  /\ config.entry = "expandContext"
  /\ token = "undefined"
  /\ tracing = (config.strategy = "none")
  /\ peer = NoPeer

Init == InitWalk \/ InitSelection

\* getImpactAnalysis on the first file of a chain
InitChain ==
  /\ host \in ChainHosts
  /\ settings \in Settings
  /\ initial = <<FileA>>
  /\ token = "undefined"
  /\ tracing = TRUE
  /\ peer = NoPeer
  /\ InitCall
  /\ config.entry = "getImpactAnalysis"

\* getImpactAnalysis on a file of an acyclic relation graph, without budget
InitGraph ==
  /\ host \in DagHosts
  /\ settings \in {s \in Settings : s.maxFiles = 0}
  /\ initial \in [1..1 -> {FileA, FileB}]
  /\ token = "undefined"
  /\ tracing = TRUE
  /\ peer = NoPeer
  /\ InitCall
  /\ config.entry = "getImpactAnalysis"

Next ==
  \/ expandContext
  \/ ForSeed
  \/ getImpactAnalysis
  \/ WalkReturn
  \/ WalkSkip
  \/ WalkProcess
  \/ processNode
  \/ resolveRelativeImports
  \/ resolveSymbolReferences
  \/ processNodeThrows
  \/ MergeAnalysis

Spec == Init /\ [][Next]_vars

NextWalk ==
  \/ getImpactAnalysis
  \/ WalkReturn
  \/ WalkSkip
  \/ WalkProcess
  \/ processNode
  \/ resolveRelativeImports
  \/ resolveSymbolReferences
  \/ processNodeThrows

SpecWalk == (InitWalk \/ InitChain) /\ [][NextWalk]_vars

(***************************************************************************)
(* FileProcessor.processBatch: the files of a chunk are processed at the   *)
(* same time, each by its own getImpactAnalysis with its own walker; the   *)
(* steps of the second one are those of the first, taken on peer.          *)
(***************************************************************************)
\* the walker the second call works on
PeerWalkerShared == [peer.walker EXCEPT !.visited = @ \cup visited]

PeerWalker == peer.walker

\* getImpactAnalysis up to the head of walk's loop; the options are those of
\* the first call, built from the same configuration
PeerStart ==
  /\ peer.pc = "getImpactAnalysis"
  /\ IF SkipsAnalysis(config.strategy)
     THEN peer' = [peer EXCEPT !.pc = "returned"]
     ELSE /\ options # NoOptions
          /\ peer' = [peer EXCEPT !.pc = "walk",
                                   !.walker = addToQueue(NewWalker, peer.seed, 0)]
  /\ UNCHANGED <<unitVars, host, settings, initial, config, token, tracing, expandedUris, pc,
                 coordVars,
                 walkerVars, invoked, failed>>

\* one pass through the head of walk's loop
PeerWalk ==
  /\ peer.pc = "walk"
  /\ LET w == PeerWalker
     IN IF w.queue = <<>> \/ BudgetReached(w)
        THEN peer' = [peer EXCEPT !.pc = "returned"]
        ELSE IF AtHorizon(Head(w.queue))
        THEN peer' = [peer EXCEPT !.walker = [w EXCEPT !.queue = Tail(@)]]
        ELSE peer' = [peer EXCEPT !.walker = [w EXCEPT !.queue = Tail(@)],
                                  !.current = Head(w.queue),
                                  !.pc = "links"]
  /\ UNCHANGED <<unitVars, host, settings, initial, config, token, tracing, expandedUris, pc,
                 coordVars,
                 walkerVars, invoked, failed>>

\* one awaited provider call of processNode and the loop over what it returns
PeerNode ==
  /\ peer.pc \in {"links", "imports", "references"}
  /\ LET w == PeerWalker
         uri == peer.current.uri
         depth == peer.current.depth + 1
     IN \/ /\ peer.pc = "links"
           /\ \E links \in Answers("links", uri) :
                peer' = [peer EXCEPT !.walker = addTargets(w, links, depth),
                                     !.pc = "imports"]
        \/ /\ peer.pc = "imports"
           /\ \E locs \in Answers("imports", uri) :
                peer' = [peer EXCEPT
                           !.walker = addTargets(w, locs, depth),
                           !.pc = IF options.strategy = "deep" /\ options.symbolKinds
                                  THEN "references" ELSE "walk"]
        \/ /\ peer.pc = "references"
           /\ \E refs \in Answers("references", uri) :
                peer' = [peer EXCEPT
                           !.walker = IF BudgetReached(w) THEN w
                                      ELSE addReferences(w, refs, depth),
                           !.pc = "walk"]
  /\ UNCHANGED <<unitVars, host, settings, initial, config, token, tracing, expandedUris, pc,
                 coordVars,
                 walkerVars, invoked, failed>>

\* two files of a chain processed in one chunk
InitBatch ==
  /\ host \in ChainHosts
  /\ settings \in Settings
  /\ initial = <<FileA>>
  /\ token = "undefined"
  /\ tracing = FALSE
  /\ \E seed \in {ChainFiles[1], ChainFiles[2]} :
       peer = [NoPeer EXCEPT !.pc = "getImpactAnalysis", !.seed = seed]
  /\ InitCall
  /\ config.entry = "getImpactAnalysis"

NextBatch ==
  \/ getImpactAnalysis
  \/ WalkReturn
  \/ WalkSkip
  \/ WalkProcess
  \/ processNode
  \/ resolveRelativeImports
  \/ resolveSymbolReferences
  \/ PeerStart
  \/ PeerWalk
  \/ PeerNode

SpecBatch == InitBatch /\ [][NextBatch]_vars

\* the user cancels the command
RequestCancel ==
  /\ token = "live"
  /\ token' = "cancelled"
  /\ UNCHANGED <<unitVars, host, settings, initial, config, tracing, expandedUris, peer, pc,
                 coordVars,
                 walkerVars, invoked, failed>>

\* one walk during which the command may be cancelled
NextCancel ==
  \/ RequestCancel
  \/ getImpactAnalysis
  \/ WalkReturn
  \/ WalkSkip
  \/ WalkProcess
  \/ processNode
  \/ resolveRelativeImports
  \/ resolveSymbolReferences
  \/ processNodeThrows

\* getImpactAnalysis entered from a workflow whose context carries a token
InitCancel ==
  /\ host = [AnyHost EXCEPT !.names = {FileB, FileD}]
  /\ settings \in {s \in Settings : s.maxFiles = 0}
  /\ initial \in SeqsUpTo(SeedFiles, 1)
  /\ token = "live"
  /\ tracing = TRUE
  /\ peer = NoPeer
  /\ InitCall
  /\ config.entry = "getImpactAnalysis"

SpecCancel == InitCancel /\ [][NextCancel]_vars

\* walk is one chain of awaited steps: a step that can be taken is taken
FairSpecWalk == SpecWalk /\ WF_vars(NextWalk)

\* the walker's steps when no provider call throws
NextGraph ==
  \/ getImpactAnalysis
  \/ WalkReturn
  \/ WalkSkip
  \/ WalkProcess
  \/ processNode
  \/ resolveRelativeImports
  \/ resolveSymbolReferences

SpecGraph == InitGraph /\ [][NextGraph]_vars

\* getImpactAnalysis on the first file of an acyclic relation graph, with a
\* finite budget
InitGraphBudget ==
  /\ host \in DagHosts
  /\ settings \in {s \in Settings : s.maxFiles > 0}
  /\ initial = <<FileA>>
  /\ token = "undefined"
  /\ tracing = TRUE
  /\ peer = NoPeer
  /\ InitCall
  /\ config.entry = "getImpactAnalysis"

SpecGraphBudget == (InitGraph \/ InitGraphBudget) /\ [][NextGraph]_vars

\* getImpactAnalysis on the first file of an acyclic relation graph whose
\* provider calls may throw
InitFaulty ==
  /\ host \in {[h EXCEPT !.fails = TRUE] : h \in DagHosts}
  /\ settings \in {s \in Settings : s.maxFiles = 0}
  /\ initial = <<FileA>>
  /\ token = "undefined"
  /\ tracing = TRUE
  /\ peer = NoPeer
  /\ InitCall
  /\ config.entry = "getImpactAnalysis"

SpecFaulty == InitFaulty /\ [][NextWalk]_vars

(***************************************************************************)
(* ContextExpansionStep.execute (features/copy/steps.ts): the step of the  *)
(* copy command that calls expandContext, then replaces the directories    *)
(* of the expansion by the files in them.                                  *)
(***************************************************************************)
\* analysisConfig.maxFiles ?? 5
DefaultMaxFiles == 5

\* Number.MAX_SAFE_INTEGER: above every count of files
MAX_SAFE_INTEGER == 2147483647

\* rawMax === 0 ? Number.MAX_SAFE_INTEGER : rawMax
effectiveMax(rawMax) == IF rawMax = 0 THEN MAX_SAFE_INTEGER ELSE rawMax

\* the files below a directory, at any depth
Members(dir) == IF dir = DirQ THEN DirectoryFiles ELSE {}

\* collectFileUrisByFs(uri, { includeHidden: true, excludePatterns }): the
\* files below the directory whose paths no exclusion pattern matches
collectFileUrisByFs(dir, excludePatterns) ==
  {f \in Members(dir) : f \notin IgnoredUris[excludePatterns]}

\* ctx.config.analysis as the user and copyAllContents set it; maxFiles is
\* <<>> when it is not set
AnalysisConfigs ==
  [strategy : {"none", "shallow", "deep"},
   autoExpand : BOOLEAN,
   maxFiles : {<<>>} \cup {<<m>> : m \in 0..MaxBudget}]

\* the configuration of the copy command: the walker reads
\* analysisConfig.maxFiles ?? 0 from the same analysis section
StepSettings ==
  {[excludePatterns |-> resolveExcludes(e),
    maxFiles |-> IF a.maxFiles = <<>> THEN 0 ELSE a.maxFiles[1],
    symbolKinds |-> k,
    analysis |-> a] :
     e \in ExcludeSettings, k \in BOOLEAN, a \in AnalysisConfigs}

\* the step before opts is built
NoOpts == [entry |-> "ContextExpansionStep", enabled |-> FALSE, strategy |-> "none",
           maxFiles |-> 0]

\* opts.enabled taken from the strategy
StepEnabledByStrategy(autoCopy, enabled) == enabled

\* opts.enabled: autoCopy
StepEnabled(autoCopy, enabled) == autoCopy

\* execute up to the call of expandContext
ContextExpansionStep ==
  /\ pc = "ContextExpansionStep"
  /\ LET analysisConfig == settings.analysis
         autoCopy == analysisConfig.autoExpand
         strategy == analysisConfig.strategy
         enabled == strategy # "none"
         rawMax == IF analysisConfig.maxFiles = <<>> THEN DefaultMaxFiles
                   ELSE analysisConfig.maxFiles[1]
     IN IF initial = <<>>
        THEN /\ pc' = "done"
             /\ UNCHANGED <<config, expandedUris>>
        ELSE IF ~enabled /\ ~autoCopy
        THEN /\ expandedUris' = {initial[i] : i \in DOMAIN initial}
             /\ pc' = "done"
             /\ UNCHANGED config
        ELSE /\ config' = [entry |-> "ContextExpansionStep",
                           enabled |-> StepEnabled(autoCopy, enabled),
                           strategy |-> strategy, maxFiles |-> effectiveMax(rawMax)]
             /\ pc' = "expandContext"
             /\ UNCHANGED expandedUris
  /\ UNCHANGED <<unitVars, host, settings, initial, token, tracing, peer, coordVars, walkerVars,
                 invoked, failed>>

\* the loop over the candidates: a candidate whose stat or whose listing
\* throws is left out (catch {}), a directory is replaced by its files
ExpandTargets ==
  /\ pc = "returned"
  /\ config.entry = "ContextExpansionStep"
  /\ \E lost \in (IF host.fails THEN SUBSET finalUris ELSE {{}}) :
       /\ expandedUris' =
            UNION {IF uri \in Directories
                   THEN collectFileUrisByFs(uri, settings.excludePatterns)
                   ELSE {uri} : uri \in finalUris \ lost}
       /\ failed' = IF tracing /\ lost # {} THEN failed \cup {<<0, "stat">>} ELSE failed
  /\ pc' = "done"
  /\ UNCHANGED <<unitVars, host, settings, initial, config, token, tracing, peer, coordVars,
                 walkerVars, invoked>>

\* the step entered on a selection of files and directories
InitStep ==
  /\ host = [AnyHost EXCEPT !.names = {FileB, FileD}]
  /\ settings \in StepSettings
  /\ initial \in SeqsUpTo({FileA, FileB, DirQ}, MaxSeeds)
  /\ config = NoOpts
  /\ token = "undefined"
  /\ tracing = TRUE
  /\ peer = NoPeer
  /\ pc = "ContextExpansionStep"
  /\ finalUris = {}
  /\ addedCount = 0
  /\ seedIndex = 1
  /\ analysis = NoAnalysis
  /\ options = NoOptions
  /\ visited = {}
  /\ queue = <<>>
  /\ results = <<>>
  /\ current = NoEntry
  /\ pushed = <<>>
  /\ revisit = {}
  /\ rejected = {}
  /\ invoked = {}
  /\ failed = {}
  /\ expandedUris = {}
  /\ call = NoCall
  /\ generator = NoGenerator
  /\ statusBar = NoStatusBar

NextStep ==
  \/ ContextExpansionStep
  \/ expandContext
  \/ ForSeed
  \/ getImpactAnalysis
  \/ WalkReturn
  \/ WalkSkip
  \/ WalkProcess
  \/ processNode
  \/ resolveRelativeImports
  \/ resolveSymbolReferences
  \/ processNodeThrows
  \/ MergeAnalysis
  \/ ExpandTargets

SpecStep == InitStep /\ [][NextStep]_vars

\* the step is one chain of awaited calls: a call that can be made is made
FairSpecStep == SpecStep /\ WF_vars(NextStep)

(***************************************************************************)
(* The functions and classes outside the expansion engine, each exercised  *)
(* on its own while no expansion runs.                                     *)
(***************************************************************************)
\* no command of the expansion engine is running
InitIdle ==
  /\ host = AnyHost
  /\ settings = [excludePatterns |-> <<>>, maxFiles |-> 0, symbolKinds |-> FALSE]
  /\ initial = <<>>
  /\ config = NoOpts
  /\ token = "undefined"
  /\ tracing = FALSE
  /\ peer = NoPeer
  /\ pc = "idle"
  /\ finalUris = {}
  /\ addedCount = 0
  /\ seedIndex = 1
  /\ analysis = NoAnalysis
  /\ options = NoOptions
  /\ visited = {}
  /\ queue = <<>>
  /\ results = <<>>
  /\ current = NoEntry
  /\ pushed = <<>>
  /\ revisit = {}
  /\ rejected = {}
  /\ invoked = {}
  /\ failed = {}
  /\ expandedUris = {}

\* the variables of the expansion engine
engineVars == <<host, settings, initial, config, token, tracing, peer, pc, coordVars,
                walkerVars, invoked, failed, expandedUris>>

(***************************************************************************)
(* isIgnored(relativePath, [pattern]) called on its own.                   *)
(***************************************************************************)
\* longest relative path and longest pattern without wildcard tried
MaxPathLen == 5
MaxLiteralLen == 3

\* the non-empty strings of at most n characters of S
Strings(S, n) == UNION {[1..k -> S] : k \in 1..n}

\* relative paths: the segments n and N, both separators
IgnorePaths == Strings({"n", "N", "/", "\\"}, MaxPathLen)

\* patterns without wildcard, then patterns with ** around the directory n
LiteralPatterns == Strings({"n", "N", "/", "\\"}, MaxLiteralLen)
GlobPatterns ==
  { <<"*", "*", "/", "n">>,
    <<"n", "/", "*", "*">>,
    <<"*", "*", "/", "n", "/", "*", "*">>,
    <<"*", "*", "/", "n", "/", "N">>,
    <<"n", "/", "N", "/", "*", "*">> }

isIgnoredCall ==
  /\ call.fn = "isIgnored"
  /\ ~call.returned
  /\ call' = [call EXCEPT !.returned = TRUE,
                          !.result = isIgnored(call.relativePath, call.patterns)]
  /\ UNCHANGED <<engineVars, generator, statusBar>>

InitIgnore ==
  /\ InitIdle
  /\ generator = NoGenerator
  /\ statusBar = NoStatusBar
  /\ \E path \in IgnorePaths, pattern \in LiteralPatterns \cup GlobPatterns :
       call = [fn |-> "isIgnored", relativePath |-> path, patterns |-> <<pattern>>,
               returned |-> FALSE, result |-> FALSE]

SpecIgnore == InitIgnore /\ [][isIgnoredCall]_vars

(***************************************************************************)
(* ConfigEngine (core/config.ts).  A configuration object is a function    *)
(* from its own keys to values; a value carries its type, so that a key    *)
(* that is present with the value undefined differs from an absent key.    *)
(***************************************************************************)
Undef == [t |-> "undefined"]
Bool(b) == [t |-> "boolean", v |-> b]
Str(x) == [t |-> "string", v |-> x]
Num(n) == [t |-> "number", v |-> n]
Arr(a) == [t |-> "array", v |-> a]
Obj(o) == [t |-> "object", o |-> o]
\* {}
EmptyObject == [k \in {} |-> Undef]

\* o[k]
Read(o, k) == IF k \in DOMAIN o THEN o[k] ELSE Undef

\* { ...a, ...b }: every own key of b is copied, whatever its value
Spread(a, b) ==
  [k \in DOMAIN a \cup DOMAIN b |-> IF k \in DOMAIN b THEN b[k] ELSE a[k]]

\* the loop over Object.entries(layer)
mergeLayers(base, layer) ==
  [k \in DOMAIN base \cup {j \in DOMAIN layer : layer[j] # Undef} |->
     IF k \in DOMAIN layer /\ layer[k] # Undef
     THEN IF layer[k].t = "object" /\ Read(base, k).t = "object"
          THEN Obj(Spread(base[k].o, layer[k].o))
          ELSE layer[k]
     ELSE base[k]]

\* the settings below codeBridge that the copy command reads: filters.excludes
\* and the sections copy, diagnostics and analysis
loadBaseLayer(raw) == [excludes |-> Arr(raw.excludes)]

\* ConfigEngine.get('copy', overrides), excludePatterns apart
ConfigEngineGet(raw, overrides) ==
  mergeLayers(
    mergeLayers(
      mergeLayers(mergeLayers(loadBaseLayer(raw), raw.copy), raw.diagnostics),
      raw.analysis),
    overrides)

\* config.excludePatterns = this.resolveExcludes(config.excludes || [])
ConfigExcludePatterns(cfg) ==
  resolveExcludes(IF Read(cfg, "excludes").t = "array" THEN cfg.excludes.v ELSE <<>>)

\* copyAllContents: const overrides
Overrides(analysisStrategy, expansionMode) ==
  [forceDiagnostics |-> Bool(FALSE),
   analysis |-> Obj([strategy |-> Str(analysisStrategy),
                     autoExpand |-> IF expansionMode = "force" THEN Bool(TRUE)
                                    ELSE IF expansionMode = "off" THEN Bool(FALSE)
                                    ELSE Undef])]

\* config.analysis || {}
AnalysisOf(cfg) ==
  IF Read(cfg, "analysis").t = "object" THEN cfg.analysis.o ELSE EmptyObject

\* what ContextExpansionStep reads of ctx.config.analysis:
\* autoExpand ?? false, strategy || 'shallow', maxFiles
StepAnalysis(cfg) ==
  LET a == AnalysisOf(cfg)
  IN [strategy |-> IF Read(a, "strategy").t = "string" THEN a.strategy.v ELSE "shallow",
      autoExpand |-> IF Read(a, "autoExpand").t = "boolean" THEN a.autoExpand.v ELSE FALSE,
      maxFiles |-> IF Read(a, "maxFiles").t = "number" THEN <<a.maxFiles.v>> ELSE <<>>]

\* what getImpactAnalysis reads of ConfigEngine.get('copy').analysis:
\* maxFiles ?? 0, whether symbolKinds is a non-empty array
WalkerAnalysis(cfg) ==
  LET a == AnalysisOf(cfg)
  IN [maxFiles |-> IF Read(a, "maxFiles").t = "number" THEN a.maxFiles.v ELSE 0,
      symbolKinds |-> Read(a, "symbolKinds").t = "array" /\ a.symbolKinds.v # <<>>]

(***************************************************************************)
(* copyAllContents (features/copy/index.ts): the configuration of the      *)
(* command, then the workflow up to ctx.expandedUris.                      *)
(***************************************************************************)
\* the user's settings tried: the section analysis, whose keys ConfigEngine
\* merges at top level, and an object analysis inside the section copy
RawConfigs ==
  [excludes : ExcludeSettings,
   copy : {EmptyObject,
           [analysis |-> Obj([autoExpand |-> Bool(TRUE)])],
           [analysis |-> Obj([autoExpand |-> Bool(TRUE), maxFiles |-> Num(1),
                              symbolKinds |-> Arr(<<"function">>)])]},
   diagnostics : {EmptyObject},
   analysis : {EmptyObject,
               [autoExpand |-> Bool(TRUE), strategy |-> Str("deep")],
               [autoExpand |-> Bool(FALSE), maxFiles |-> Num(0)]}]

\* the command up to engine.run(context)
copyAllContents ==
  /\ pc = "copyAllContents"
  /\ LET cfg == ConfigEngineGet(call.raw,
                                Overrides(call.analysisStrategy, call.expansionMode))
         fullConfig == ConfigEngineGet(call.raw, EmptyObject)
     IN settings' = [excludePatterns |-> ConfigExcludePatterns(cfg),
                     maxFiles |-> WalkerAnalysis(fullConfig).maxFiles,
                     symbolKinds |-> WalkerAnalysis(fullConfig).symbolKinds,
                     analysis |-> StepAnalysis(cfg)]
  /\ pc' = IF initial = <<>> THEN "done" ELSE "ContextExpansionStep"
  /\ UNCHANGED <<unitVars, host, initial, config, token, tracing, peer, coordVars,
                 walkerVars, invoked, failed, expandedUris>>

\* copyAllContents called on a selection of files and directories
InitCommand ==
  /\ host = [AnyHost EXCEPT !.names = {FileB, FileD}]
  /\ settings = [excludePatterns |-> <<>>, maxFiles |-> 0, symbolKinds |-> FALSE]
  /\ initial \in SeqsUpTo({FileA, DirQ}, MaxSeeds)
  /\ config = NoOpts
  /\ token = "undefined"
  /\ tracing = TRUE
  /\ peer = NoPeer
  /\ pc = "copyAllContents"
  /\ finalUris = {}
  /\ addedCount = 0
  /\ seedIndex = 1
  /\ analysis = NoAnalysis
  /\ options = NoOptions
  /\ visited = {}
  /\ queue = <<>>
  /\ results = <<>>
  /\ current = NoEntry
  /\ pushed = <<>>
  /\ revisit = {}
  /\ rejected = {}
  /\ invoked = {}
  /\ failed = {}
  /\ expandedUris = {}
  /\ generator = NoGenerator
  /\ statusBar = NoStatusBar
  /\ \E raw \in RawConfigs, strategy \in {"none", "shallow", "deep"},
        mode \in {"off", "config", "force"} :
       call = [fn |-> "copyAllContents", raw |-> raw, analysisStrategy |-> strategy,
               expansionMode |-> mode]

NextCommand ==
  \/ copyAllContents
  \/ NextStep

SpecCommand == InitCommand /\ [][NextCommand]_vars

(***************************************************************************)
(* StatusBarManager (core/utils.ts).  A timer is the id setTimeout         *)
(* returned; timers holds the ids whose callback is still to run.          *)
(***************************************************************************)
\* most calls of update made from outside in one run
MaxUpdates == 5

\* timeoutId === undefined
NoTimeout == 0
Statuses == {"idle", "working", "success", "error"}
\* revertToIdleDelay: 0 stands for an omitted delay and for a delay of 0
Delays == {0, 4000}

\* the constructor: update('idle') on a fresh item
NewStatusBar ==
  [pc |-> "shown", status |-> "idle", timeoutId |-> NoTimeout, timers |-> {},
   nextId |-> 1, calls |-> 0, latest |-> NoTimeout, cleared |-> FALSE,
   stale |-> FALSE]

clearTimeout(timers, id) == timers \ {id}

\* update that leaves the pending timer alone
ClearPendingNever(sb) == sb

\* if (this.timeoutId) { clearTimeout(this.timeoutId); this.timeoutId = undefined }
\* cleared records that a timer still pending was cancelled
ClearPending(sb) ==
  IF sb.timeoutId # NoTimeout
  THEN [sb EXCEPT !.timers = clearTimeout(sb.timers, sb.timeoutId),
                  !.timeoutId = NoTimeout,
                  !.cleared = @ \/ sb.timeoutId \in sb.timers]
  ELSE sb

\* update(status, message, revertToIdleDelay); latest is the timer this call
\* scheduled, if any
update(sb, status, revertToIdleDelay) ==
  LET shown == [ClearPending(sb) EXCEPT !.status = status, !.latest = NoTimeout]
  IN  IF revertToIdleDelay # 0 /\ status \in {"success", "error"}
      THEN [shown EXCEPT !.timeoutId = shown.nextId,
                         !.timers = @ \cup {shown.nextId},
                         !.latest = shown.nextId,
                         !.nextId = @ + 1]
      ELSE shown

\* the callback of a pending timer runs: this.update('idle'); stale records
\* that the timer was not the one the latest update scheduled
TimerFires(sb, id) ==
  update([sb EXCEPT !.timers = @ \ {id}, !.stale = @ \/ id # sb.latest], "idle", 0)

\* some command calls statusBar.update
updateCall ==
  /\ statusBar.pc = "shown"
  /\ statusBar.calls < MaxUpdates
  /\ \E status \in Statuses, delay \in Delays :
       statusBar' = [update(statusBar, status, delay) EXCEPT !.calls = @ + 1]
  /\ UNCHANGED <<engineVars, call, generator>>

timerFires ==
  /\ statusBar.pc # "absent"
  /\ \E id \in statusBar.timers : statusBar' = TimerFires(statusBar, id)
  /\ UNCHANGED <<engineVars, call, generator>>

\* dispose(): the pending timer is cleared, the item is gone
dispose ==
  /\ statusBar.pc = "shown"
  /\ statusBar' = [statusBar EXCEPT
                     !.pc = "disposed",
                     !.timers = IF statusBar.timeoutId # NoTimeout
                                THEN clearTimeout(@, statusBar.timeoutId) ELSE @]
  /\ UNCHANGED <<engineVars, call, generator>>

InitStatusBar ==
  /\ InitIdle
  /\ call = NoCall
  /\ generator = NoGenerator
  /\ statusBar = NewStatusBar

NextStatusBar == updateCall \/ timerFires \/ dispose

SpecStatusBar == InitStatusBar /\ [][NextStatusBar]_vars
FairSpecStatusBar == SpecStatusBar /\ WF_vars(timerFires)

(***************************************************************************)
(* The file generator (features/generator).  A path is a string, a file    *)
(* uri is the path of the uri; the blocks of the LLM output are reduced to *)
(* the path detected for each.                                             *)
(***************************************************************************)
\* most directory segments of a detected path, most blocks of one output
MaxSegments == 3
MaxBatch == 3

\* p.split('/')
RECURSIVE SplitSlash(_)
SplitSlash(p) ==
  IF ~HasChar(p, "/") THEN <<p>>
  ELSE LET i == CHOOSE k \in DOMAIN p : p[k] = "/" /\ \A j \in 1..(k - 1) : p[j] # "/"
       IN  <<SubSeq(p, 1, i - 1)>> \o SplitSlash(Drop(p, i))

\* parts.join('/')
RECURSIVE JoinSlash(_)
JoinSlash(parts) ==
  IF parts = <<>> THEN <<>>
  ELSE IF Len(parts) = 1 THEN parts[1]
  ELSE parts[1] \o <<"/">> \o JoinSlash(Tail(parts))

DotDot == <<".", ".">>
Dot == <<".">>

\* a normalize that keeps a '..' it cannot resolve, as path.normalize does
normalizeStepKeepsParent(stack, part) ==
  IF part = DotDot
  THEN IF stack = <<>> \/ stack[Len(stack)] = DotDot THEN Append(stack, part)
       ELSE SubSeq(stack, 1, Len(stack) - 1)
  ELSE IF part # Dot /\ part # <<>> THEN Append(stack, part) ELSE stack

\* one round of the loop of posixPath.normalize; pop() of an empty stack
\* does nothing
normalizeStep(stack, part) ==
  IF part = DotDot
  THEN IF stack = <<>> THEN stack ELSE SubSeq(stack, 1, Len(stack) - 1)
  ELSE IF part # Dot /\ part # <<>> THEN Append(stack, part) ELSE stack

RECURSIVE normalizeStack(_, _)
normalizeStack(parts, stack) ==
  IF parts = <<>> THEN stack
  ELSE normalizeStack(Tail(parts), normalizeStep(stack, parts[1]))

\* posixPath.normalize(p)
normalize(p) ==
  (IF StartsWith(p, <<"/">>) THEN <<"/">> ELSE <<>>)
    \o JoinSlash(normalizeStack(SplitSlash(p), <<>>))

\* vscode.Uri.joinPath(baseUri, fragment): the two joined with '/', then
\* '.', '' and '..' resolved, '..' against the segments of the base as well
RECURSIVE ResolveSegments(_, _)
ResolveSegments(parts, stack) ==
  IF parts = <<>> THEN stack
  ELSE ResolveSegments(Tail(parts),
         IF parts[1] = DotDot
         THEN IF stack = <<>> THEN stack ELSE SubSeq(stack, 1, Len(stack) - 1)
         ELSE IF parts[1] # Dot /\ parts[1] # <<>> THEN Append(stack, parts[1])
         ELSE stack)

joinPath(baseUri, fragment) ==
  <<"/">> \o JoinSlash(ResolveSegments(SplitSlash(baseUri \o <<"/">> \o fragment), <<>>))

\* the target directory of the generation
TargetDir == <<"/", "t">>

\* paths PATH_REGEX can match: directory segments '..', '.', '' and a, then
\* a file name with an extension
PathSegments == {DotDot, Dot, <<>>, <<"a">>}
FileNames == {<<"a", ".", "a">>, <<".", ".", "a">>}
DetectedPaths ==
  {JoinSlash(dirs \o <<name>>) : dirs \in SeqsUpTo(PathSegments, MaxSegments),
                                  name \in FileNames}

\* the paths of the batches of several files, and the files they name
BatchPaths == {<<"a", ".", "a">>, <<"/", "a", ".", "a">>, <<"b", ".", "a">>}
BatchUris == {joinPath(TargetDir, p) : p \in BatchPaths}

\* the answers to the modal 'File exists' prompt; undefined: dismissed
PromptAnswers == {"Overwrite", "Skip", "Overwrite All", "Skip All", "undefined"}
NotPrompted == "none"

\* parseLlmOutput: every path normalized, one file per normalized path, in
\* the order of first appearance
RECURSIVE parseLlmOutput(_)
parseLlmOutput(output) ==
  IF output = <<>> THEN <<>>
  ELSE LET before == parseLlmOutput(SubSeq(output, 1, Len(output) - 1))
           normalized == normalize(output[Len(output)])
       IN  IF \E i \in DOMAIN before : before[i] = normalized THEN before
           ELSE Append(before, normalized)

\* selected.map(s => s.fileData): the picked files in their order
RECURSIVE PickedFiles(_, _)
PickedFiles(files, picked) ==
  IF files = <<>> THEN <<>>
  ELSE LET rest == PickedFiles(SubSeq(files, 1, Len(files) - 1), picked)
       IN  IF Len(files) \in picked THEN Append(rest, files[Len(files)]) ELSE rest

\* generateFilesFromLlmOutput up to the loop: parse, let the user pick the
\* files if the strategy is 'ask', set the policy, show 'working'
generateFilesFromLlmOutput ==
  /\ generator.pc = "parse"
  /\ LET parsed == parseLlmOutput(generator.output)
         confirmBeforeWrite == generator.conflictStrategy = "ask"
     IN  \E picked \in SUBSET (DOMAIN parsed) :
           /\ ~confirmBeforeWrite => picked = DOMAIN parsed
           /\ IF picked = {}
              THEN /\ generator' = [generator EXCEPT !.pc = "done"]
                   /\ UNCHANGED statusBar
              ELSE /\ generator' = [generator EXCEPT
                                      !.pc = "create",
                                      !.filesToCreate = PickedFiles(parsed, picked),
                                      !.policy = generator.conflictStrategy]
                   /\ statusBar' = update(statusBar, "working", 0)
  /\ UNCHANGED <<engineVars, call>>

\* a createFile that writes when the prompt was dismissed
AnswerSkipsUnlessDismissed(ans) == ans \in {"Skip", "Skip All"}

\* the answers after which createFile returns 'skipped'
AnswerSkips(ans) == ans \in {"Skip", "Skip All", "undefined"}

\* what createFile does to one file: the entry of the log, the policy and
\* the files on disk afterwards
CreateFileOutcome(g, ans, writeFails) ==
  LET filePath == g.filesToCreate[g.next]
      fileUri == joinPath(TargetDir, filePath)
      existed == fileUri \in g.disk
      overwriteExisting == g.conflictStrategy = "overwrite"
      prompted == existed /\ g.policy = "ask" /\ ~overwriteExisting
      policy == IF prompted /\ ans = "Skip All" THEN "skip"
                ELSE IF prompted /\ ans = "Overwrite All" THEN "overwrite"
                ELSE g.policy
      skipped == \/ existed /\ g.policy = "skip"
                 \/ prompted /\ AnswerSkips(ans)
      status == IF skipped THEN "skipped"
                ELSE IF writeFails THEN "error" ELSE "created"
  IN  [entry |-> [filePath |-> filePath, fileUri |-> fileUri, existed |-> existed,
                  answer |-> IF prompted THEN ans ELSE NotPrompted,
                  status |-> status],
       policy |-> policy,
       disk |-> IF status = "created" THEN g.disk \cup {fileUri} ELSE g.disk]

\* one round of the loop over filesToCreate; after the last file the status
\* bar shows the result
createFile ==
  /\ generator.pc = "create"
  /\ \E ans \in PromptAnswers, writeFails \in BOOLEAN, showNotifications \in BOOLEAN :
       LET out == CreateFileOutcome(generator, ans, writeFails)
           log == Append(generator.log, out.entry)
           last == generator.next = Len(generator.filesToCreate)
           errors == \E i \in DOMAIN log : log[i].status = "error"
       IN  /\ out.entry.answer = NotPrompted => ans = "undefined"
           /\ out.entry.status = "skipped" => ~writeFails
           /\ ~last => ~showNotifications
           /\ generator' = [generator EXCEPT
                              !.pc = IF last THEN "done" ELSE "create",
                              !.next = @ + 1,
                              !.policy = out.policy,
                              !.disk = out.disk,
                              !.log = log]
           /\ statusBar' =
                IF ~last THEN statusBar
                ELSE IF showNotifications
                THEN update(statusBar, IF errors THEN "error" ELSE "success", 4000)
                ELSE update(statusBar, "idle", 0)
  /\ UNCHANGED <<engineVars, call>>

NewGenerator(output, conflictStrategy, disk) ==
  [pc |-> "parse", output |-> output, conflictStrategy |-> conflictStrategy,
   filesToCreate |-> <<>>, next |-> 1, policy |-> conflictStrategy,
   disk |-> disk, before |-> disk, log |-> <<>>]

\* one block with any detected path, or a batch over the few batch paths
\* with some of the files on disk already
InitGenerate ==
  /\ InitIdle
  /\ call = NoCall
  /\ statusBar = NewStatusBar
  /\ \E conflictStrategy \in {"ask", "overwrite", "skip"} :
       \/ \E p \in DetectedPaths :
            generator = NewGenerator(<<p>>, conflictStrategy, {})
       \/ \E output \in SeqsUpTo(BatchPaths, MaxBatch) \ {<<>>},
             disk \in SUBSET BatchUris :
            generator = NewGenerator(output, conflictStrategy, disk)

NextGenerate == generateFilesFromLlmOutput \/ createFile \/ timerFires

SpecGenerate == InitGenerate /\ [][NextGenerate]_vars

(***************************************************************************)
(* Properties of one walk.                                                 *)
(***************************************************************************)
Returned == pc = "returned"
\* a walker has been constructed and given its root
Walking == pushed # <<>>
NoRepeat(seq) == \A i, j \in DOMAIN seq : seq[i] = seq[j] => i = j
Range(seq) == {seq[i] : i \in DOMAIN seq}
ProviderCommands == {"executeDefinitionProvider", "executeDocumentSymbolProvider",
                     "executeReferenceProvider"}

\* C1: a walk with maxFiles > 0 returns at most maxFiles files, however many
\* candidates one node yields.
C1_WalkKeepsBudget ==
  (Returned /\ Walking /\ options.maxFiles > 0)
    => Len(analysis.relatedUris) <= options.maxFiles

\* C3: no file appears twice in the list a walk builds and returns.
C3_NoFileTwice == NoRepeat(results) /\ NoRepeat(analysis.relatedUris)

\* a walk has returned two files or more and was offered one of them again
C3_Witness ==
  /\ Returned
  /\ "result" \in revisit
  /\ Len(analysis.relatedUris) >= 2

\* C4: every file a walk emits or enqueues for discovery, the root aside, is a
\* file of the workspace folder whose relative path no exclusion pattern ignores.
C4_OnlyAdmissibleFiles ==
  /\ \A i \in 2..Len(pushed) :
       /\ pushed[i].uri \in WorkspaceFiles
       /\ pushed[i].uri \notin IgnoredUris[options.excludePatterns]
  /\ \A uri \in Range(results) \cup Range(analysis.relatedUris) :
       /\ uri \in WorkspaceFiles
       /\ uri \notin IgnoredUris[options.excludePatterns]
  /\ \A i \in DOMAIN queue : \E j \in DOMAIN pushed : queue[i] = pushed[j]

\* a walk has returned files after turning down a file outside the workspace
\* and a file of an excluded path
C4_Witness ==
  /\ Returned
  /\ rejected = {"outside", "excluded"}
  /\ analysis.relatedUris # <<>>

\* C5: every emitted file was enqueued with a depth from 1 to maxDepth, which is
\* 1 under shallow and 5 under deep; on a chain of files the depth is the number
\* of steps from the seed.
C5_DepthWithinLimit ==
  Walking =>
    /\ options.strategy = "shallow" => options.maxDepth = 1
    /\ options.strategy = "deep" => options.maxDepth = 5
    /\ \A i \in 2..Len(pushed) : pushed[i].depth \in 1..options.maxDepth
    /\ results = [i \in 1..(Len(pushed) - 1) |-> pushed[i + 1].uri]
    /\ host \in ChainHosts =>
         \A i \in DOMAIN results :
            /\ pushed[i + 1].depth \in DOMAIN ChainFiles
            /\ results[i] = ChainFiles[pushed[i + 1].depth]

\* a deep walk along a chain has returned the five files within its limit
C5_Witness ==
  /\ Returned
  /\ host \in ChainHosts
  /\ options.strategy = "deep"
  /\ analysis.relatedUris = SubSeq(ChainFiles, 1, 5)

\* C6: the seed is the one entry of depth 0 and is never among the emitted files.
C6_SeedNeverEmitted ==
  Walking =>
    /\ pushed[1] = [uri |-> initial[seedIndex], depth |-> 0]
    /\ \A i \in 2..Len(pushed) : pushed[i].depth > 0
    /\ initial[seedIndex] \notin Range(results) \cup Range(analysis.relatedUris)

\* a walk has returned files after a candidate led back to the seed
C6_Witness ==
  /\ Returned
  /\ "seed" \in revisit
  /\ analysis.relatedUris # <<>>

\* C7: every walk returns, and no file is enqueued twice: the queue holds, in
\* order, the entries pushed and not yet taken, each file once.
C7_WalkTerminates ==
  /\ <>Returned
  /\ [](/\ \A i, j \in DOMAIN pushed : pushed[i].uri = pushed[j].uri => i = j
        /\ \E k \in 1..(Len(pushed) + 1) : queue = SubSeq(pushed, k, Len(pushed)))

\* a deep walk without budget has returned after it was led back to its seed
\* and to a file it had emitted, from a file below the seed
C7_Witness ==
  /\ Returned
  /\ options.strategy = "deep"
  /\ options.maxFiles = 0
  /\ revisit = {"seed", "result"}
  /\ current.depth >= 1

\* C10: under shallow neither the definition provider nor the symbol and
\* reference providers are invoked, and a file the seed reaches only by an
\* import is not emitted.
C10_ShallowUsesLinksOnly ==
  options.strategy = "shallow" =>
    /\ invoked \cap ProviderCommands = {}
    /\ (host.fixed /\ host.links[initial[seedIndex]] = <<>>) => results = <<>>

(***************************************************************************)
(* Properties of the relation graph.                                       *)
(***************************************************************************)
\* the relations of a strategy: links under both, under deep also the imports
\* and the references of the symbols of the configured kinds
Related(u) ==
  Range(host.links[u])
    \cup (IF options.strategy = "deep" THEN Range(host.imports[u]) ELSE {})
    \cup (IF options.strategy = "deep" /\ options.symbolKinds
          THEN Range(host.references[u]) ELSE {})

\* the files a path of 1 to k relations leads to from a file of S
RECURSIVE ReachableWithin(_, _)
ReachableWithin(S, k) ==
  IF k = 0 THEN {}
  ELSE LET T == UNION {Related(u) : u \in S}
       IN T \cup ReachableWithin(T, k - 1)

\* C8: without budget and on an acyclic graph a walk returns exactly the
\* admissible files that a relation path of length 1 to maxDepth reaches.
C8_ReturnsReachableClosure ==
  (Returned /\ Walking) =>
    Range(analysis.relatedUris) =
      {v \in ReachableWithin({initial[seedIndex]}, options.maxDepth) :
         v \in WorkspaceFiles \ IgnoredUris[options.excludePatterns]}

(***************************************************************************)
(* Properties of expandContext.                                            *)
(***************************************************************************)
Selection == Range(initial)

\* C2: with maxFiles > 0 expandContext adds at most maxFiles files over all
\* the seeds of the selection, and addedCount is the number of files added.
C2_SelectionKeepsBudget ==
  (config.entry = "expandContext" /\ config.maxFiles > 0 /\ pc # "expandContext") =>
    /\ addedCount <= config.maxFiles
    /\ addedCount = Cardinality(finalUris \ Selection)

\* the first of two seeds has used the whole budget, the second is not analysed
C2_Witness ==
  /\ Returned
  /\ config.entry = "expandContext"
  /\ Len(initial) = 2
  /\ seedIndex = 2
  /\ config.maxFiles > 0
  /\ addedCount = config.maxFiles

\* C9: under strategy none no provider is invoked, no walk is started,
\* relatedUris is empty, and expandContext returns the selection with
\* addedCount 0.
C9_NoneAddsNothing ==
  config.strategy = "none" =>
    /\ invoked = {}
    /\ ~Walking
    /\ analysis.relatedUris = <<>>
    /\ (Returned /\ config.entry = "expandContext") =>
         (addedCount = 0 /\ finalUris = Selection)

\* getImpactAnalysis has returned under strategy none
C9_Witness ==
  /\ Returned
  /\ config.strategy = "none"
  /\ config.entry = "getImpactAnalysis"
  /\ analysis = NoAnalysis

(***************************************************************************)
(* Failures of the host's calls.                                           *)
(***************************************************************************)
InNode == pc \in {"links", "imports", "references"}
IsPrefix(a, b) == Len(a) <= Len(b) /\ SubSeq(b, 1, Len(a)) = a

\* C11: a call that throws at a node never ends the walk: the step leaves
\* processNode normally, keeps every file emitted and every entry queued, and
\* the walk goes on until the queue is empty or the budget is reached, and
\* returns the files accumulated.
C11_FailureNeverAborts ==
  /\ <>Returned
  /\ [][InNode => /\ pc' \in {"imports", "references", "walk"}
                  /\ IsPrefix(results, results')
                  /\ IsPrefix(queue, queue')]_vars
  /\ []((Returned /\ Walking) =>
          /\ analysis.relatedUris = results
          /\ queue = <<>> \/ BudgetReached(Walker))

\* a walk has returned two files or more although a file below the seed could
\* not be opened and a provider command threw
C11_Witness ==
  /\ Returned
  /\ {<<1, "open">>, <<1, "call">>} \subseteq failed
  /\ Len(analysis.relatedUris) >= 2

\* the link provider has thrown at the seed, the one node expanded so far
LinkFailedAtSeed ==
  /\ pc = "walk"
  /\ current = [uri |-> initial[seedIndex], depth |-> 0]
  /\ failed = {<<seedIndex, "call">>}
  /\ "executeDocumentSymbolProvider" \notin invoked

\* C12: a provider that fails at a node counts as one that found nothing: when
\* link discovery has failed at the seed of a deep walk, the admissible files
\* that the seed's imports and symbol references lead to are collected all the
\* same.
C12_FailureIsEmptyAnswer ==
  (host.fixed /\ options.strategy = "deep" /\ LinkFailedAtSeed) =>
    \A v \in Range(host.imports[current.uri])
               \cup (IF options.symbolKinds THEN Range(host.references[current.uri])
                     ELSE {}) :
       (v \in WorkspaceFiles \ IgnoredUris[options.excludePatterns]) => v \in visited

(***************************************************************************)
(* The order of the files returned.                                        *)
(***************************************************************************)
Admissible(v) == v \in WorkspaceFiles \ IgnoredUris[options.excludePatterns]

\* what a node's providers return under deep, provider after provider: links,
\* imports, and the references when symbol kinds are configured
Candidates(u) ==
  host.links[u] \o host.imports[u]
    \o (IF options.symbolKinds THEN host.references[u] ELSE <<>>)

\* the admissible files of cands not in seen, each once, in the order of cands
RECURSIVE NewFiles(_, _)
NewFiles(seen, cands) ==
  IF cands = <<>> THEN <<>>
  ELSE IF Head(cands) \in seen \/ ~Admissible(Head(cands))
  THEN NewFiles(seen, Tail(cands))
  ELSE <<Head(cands)>> \o NewFiles(seen \cup {Head(cands)}, Tail(cands))

\* the files found breadth first from the entries of frontier, in order
RECURSIVE BreadthFirst(_, _)
BreadthFirst(frontier, seen) ==
  IF frontier = <<>> THEN <<>>
  ELSE LET e == Head(frontier)
           new == IF e.depth >= options.maxDepth THEN <<>>
                  ELSE NewFiles(seen, Candidates(e.uri))
       IN new \o BreadthFirst(Tail(frontier)
                                \o [i \in DOMAIN new |-> [uri |-> new[i],
                                                          depth |-> e.depth + 1]],
                              seen \cup Range(new))

\* a.t links to b.t, a symbol of b.t is referenced by d.t, nothing else is
\* related, and b.t and d.t are admissible
ScenarioC ==
  /\ host.fixed
  /\ initial = <<FileA>>
  /\ host.links = [NoGraph EXCEPT ![FileA] = <<FileB>>]
  /\ host.imports = NoGraph
  /\ host.references = [NoGraph EXCEPT ![FileB] = <<FileD>>]
  /\ Admissible(FileB) /\ Admissible(FileD)

C14_BreadthFirstOrder ==
  Walking =>
    /\ \A i, j \in DOMAIN pushed : i <= j => pushed[i].depth <= pushed[j].depth
    /\ queue = SubSeq(pushed, Len(pushed) - Len(queue) + 1, Len(pushed))
    /\ InNode =>
         /\ current = pushed[Len(pushed) - Len(queue)]
         /\ \A i \in DOMAIN queue :
              queue[i].depth \in {current.depth, current.depth + 1}

\* a deep walk has returned after pushing two files of depth 1 and then a file
\* of depth 2, and has expanded a file below the seed last
C14_Witness ==
  /\ Returned
  /\ options.strategy = "deep"
  /\ Len(pushed) = 4
  /\ pushed[2].depth = 1 /\ pushed[3].depth = 1 /\ pushed[4].depth = 2
  /\ current.depth >= 1

(***************************************************************************)
(* Cancellation.                                                           *)
(***************************************************************************)
\* C15: once cancellation is requested the walk starts expanding no further
\* node.
C15_CancelStopsWalk ==
  [][token = "cancelled" => ~(pc = "walk" /\ pc' = "links")]_vars

(***************************************************************************)
(* Walks running at the same time.                                         *)
(***************************************************************************)
\* processNode run without suspension on a host that answers from one graph
ExpandAlone(w, e) ==
  LET a == addTargets(w, host.links[e.uri], e.depth + 1)
      b == addTargets(a, host.imports[e.uri], e.depth + 1)
  IN IF options.strategy = "deep" /\ options.symbolKinds /\ ~BudgetReached(b)
     THEN addReferences(b, host.references[e.uri], e.depth + 1)
     ELSE b

\* walk's loop run alone on walker w: the list it returns
RECURSIVE WalkAlone(_)
WalkAlone(w) ==
  IF w.queue = <<>> \/ BudgetReached(w) THEN w.results
  ELSE LET e == Head(w.queue)
           rest == [w EXCEPT !.queue = Tail(@)]
       IN IF AtHorizon(e) THEN WalkAlone(rest)
          ELSE WalkAlone(ExpandAlone(rest, e))

\* C16: each of two walks that run interleaved at their provider calls returns
\* what a walk of its seed returns when it runs alone on the same graph with
\* the same options.
C16_WalkOwnsItsState ==
  /\ (Returned /\ Walking) =>
       analysis.relatedUris = WalkAlone(addToQueue(NewWalker, initial[seedIndex], 0))
  /\ (peer.pc = "returned" /\ Walking) =>
       peer.walker.results = WalkAlone(addToQueue(NewWalker, peer.seed, 0))

\* both walks are suspended at a provider call, each has emitted files, and
\* they have visited files in common
C16_Witness ==
  /\ pc = "imports"
  /\ peer.pc = "imports"
  /\ results # <<>>
  /\ peer.walker.results # <<>>
  /\ visited \cap peer.walker.visited # {}

(***************************************************************************)
(* Properties of the expansion of a selection with directories.            *)
(***************************************************************************)
\* the step has returned
Done == pc = "done"

\* C17: a directory of the selection is replaced by the files in it that no
\* exclusion pattern matches before anything is walked, so that the root of
\* every walk is a file: the directory itself is never handed to the walker
C17_DirectoryExpandedFirst == Walking => pushed[1].uri \notin Directories

\* C18: a seed that cannot be opened or statted does not make the expansion
\* fail: the step never rejects and always returns, no seed is left out
\* unless the budget is used up, the seeds are taken one after the other and
\* what each walk returns is added as long as the budget allows
C18_FailedSeedIsSkipped ==
  /\ <>Done
  /\ [](pc # "rejected")
  /\ []((Done /\ config.enabled /\ config.strategy # "none") =>
          seedIndex > Len(initial) \/ addedCount >= config.maxFiles)
  /\ [][pc = "merge" =>
          /\ seedIndex' = seedIndex + 1
          /\ \A v \in Range(analysis.relatedUris) :
               v \in finalUris' \/ addedCount' >= config.maxFiles]_vars

\* the first of two selected files could be neither opened nor statted, the
\* second one was walked and brought files in
C18_Witness ==
  /\ Done
  /\ Len(initial) = 2
  /\ initial[1] \notin Directories
  /\ <<1, "seed">> \in failed
  /\ seedIndex = 3
  /\ addedCount > 0
  /\ initial[1] \notin expandedUris
  /\ initial[2] \in expandedUris

C20_AddedCountIsWalkSize ==
  [][(pc = "merge" /\ Len(initial) = 1) =>
       addedCount' = Len(analysis.relatedUris)]_vars

(***************************************************************************)
(* Properties of isIgnored.                                                *)
(***************************************************************************)
\* isIgnored has returned
IgnoreReturned == call.fn = "isIgnored" /\ call.returned
\* the pattern of the call has no wildcard character
LiteralCall == call.patterns[1] \in LiteralPatterns

\* the four tests of the specification on a path and a pattern
LiteralMatch(path, P) ==
  \/ path = P
  \/ StartsWith(path, P \o <<"/">>)
  \/ Includes(path, <<"/">> \o P \o <<"/">>)
  \/ EndsWith(path, <<"/">> \o P)

\* C21 as stated: for a pattern P without wildcard, isIgnored is true exactly
\* when the path equals P, starts with P/, contains /P/ or ends with /P
C21_LiteralPatternAsWritten ==
  (IgnoreReturned /\ LiteralCall) =>
    (call.result <=> LiteralMatch(call.relativePath, call.patterns[1]))

\* C21: for a pattern P without wildcard, isIgnored is true exactly when the
\* four tests succeed on the path and P once every backslash of both is
\* replaced by a slash and one trailing slash of P is removed; letters are
\* compared as they are
C21_LiteralPattern ==
  (IgnoreReturned /\ LiteralCall) =>
    LET path == [i \in DOMAIN call.relativePath |->
                   IF call.relativePath[i] = "\\" THEN "/" ELSE call.relativePath[i]]
        p == [i \in DOMAIN call.patterns[1] |->
                IF call.patterns[1][i] = "\\" THEN "/" ELSE call.patterns[1][i]]
        P == IF p[Len(p)] = "/" THEN SubSeq(p, 1, Len(p) - 1) ELSE p
    IN call.result <=> LiteralMatch(path, P)

\* the pattern n/ has matched the path N/n, whose last segment is n
C21_Witness ==
  /\ IgnoreReturned
  /\ call.patterns = << <<"n", "/">> >>
  /\ call.relativePath = <<"N", "/", "n">>
  /\ call.result

\* C22: a leading **/ stands for zero or more leading segments and a trailing
\* /** for zero or more trailing segments: **/n matches n and N/n, and n/**
\* matches n, n/N and n/N/n
C22_DoubleStarSegments ==
  IgnoreReturned =>
    /\ (/\ call.patterns[1] = <<"*", "*", "/", "n">>
        /\ call.relativePath \in {<<"n">>, <<"N", "/", "n">>}) => call.result
    /\ (/\ call.patterns[1] = <<"n", "/", "*", "*">>
        /\ call.relativePath \in {<<"n">>, <<"n", "/", "N">>,
                                  <<"n", "/", "N", "/", "n">>}) => call.result

(***************************************************************************)
(* Properties of the copy command.                                         *)
(***************************************************************************)
\* the selected files and the files that collectFileUrisByFs lists for the
\* selected directories
SelectedFiles ==
  UNION {IF initial[i] \in Directories
         THEN collectFileUrisByFs(initial[i], settings.excludePatterns)
         ELSE {initial[i]} : i \in DOMAIN initial}

\* the command "Copy for AI": copyAllContents as the command registry calls it
PlainCopy ==
  /\ call.fn = "copyAllContents"
  /\ call.expansionMode = "off"
  /\ call.analysisStrategy = "shallow"

ConfiguredAutoExpand ==
  Bool(TRUE) \in {Read(call.raw.analysis, "autoExpand"),
                  Read(AnalysisOf(call.raw.copy), "autoExpand")}

\* C29: in expansion mode 'config' the override autoExpand = undefined never
\* replaces what the user configured: with autoExpand configured true, the
\* step runs with expansion enabled
C29_ConfiguredAutoExpandDecides ==
  (/\ call.fn = "copyAllContents"
   /\ call.expansionMode = "config"
   /\ pc # "copyAllContents"
   /\ ConfiguredAutoExpand) => settings.analysis.autoExpand

(***************************************************************************)
(* Further properties of one walk.                                         *)
(***************************************************************************)
\* C26: at every point of a walk the files of results are the visited files
\* but the root, every entry of the queue is a visited file, no file is
\* enqueued twice, and the root is the only entry enqueued with depth 0
C26_WalkerBookkeeping ==
  Walking =>
    /\ Range(results) = visited \ {pushed[1].uri}
    /\ \A i \in DOMAIN queue : queue[i].uri \in visited
    /\ \A i, j \in DOMAIN pushed : pushed[i].uri = pushed[j].uri => i = j
    /\ \A i \in DOMAIN pushed : pushed[i].depth = 0 <=> i = 1

\* a walk in which providers have named the root again and a file already
\* emitted, with entries still waiting in the queue
C26_Witness ==
  /\ pc = "imports"
  /\ Len(pushed) = 3
  /\ revisit = {"seed", "result"}
  /\ queue # <<>>

\* the files the walker's providers name for u: links and import targets
\* under every strategy, references under deep with symbol kinds configured
Follows(u) ==
  Range(host.links[u]) \cup Range(host.imports[u])
    \cup (IF options.strategy = "deep" /\ options.symbolKinds
          THEN Range(host.references[u]) ELSE {})

\* the root and the admissible files that a path of at most k relations
\* through admissible files reaches from it
RECURSIVE WithinDistance(_)
WithinDistance(k) ==
  IF k = 0 THEN {pushed[1].uri}
  ELSE LET S == WithinDistance(k - 1)
       IN S \cup {v \in UNION {Follows(u) : u \in S} : Admissible(v)}

\* C27: when no provider call fails, every file a walk enqueues has as depth
\* the length of the shortest path from the root through admissible files,
\* whether or not longer paths lead to it and whether or not a budget ends
\* the walk early
C27_DepthIsShortestDistance ==
  Walking =>
    \A i \in DOMAIN pushed :
      /\ pushed[i].uri \in WithinDistance(pushed[i].depth)
      /\ pushed[i].depth > 0 => pushed[i].uri \notin WithinDistance(pushed[i].depth - 1)

\* a walk cut short by its budget in which d.t, which b.t also names, was
\* found from the root
C27_Witness ==
  /\ Returned
  /\ options.maxFiles = 2
  /\ pushed = <<[uri |-> FileA, depth |-> 0], [uri |-> FileB, depth |-> 1],
                [uri |-> FileD, depth |-> 1]>>
  /\ FileD \in Follows(FileB)
  /\ queue # <<>>

(***************************************************************************)
(* Further properties of expandContext.                                    *)
(***************************************************************************)
\* C28: expandContext keeps every selected URI in the set it builds, the set
\* has as many members as the selection has distinct URIs plus addedCount,
\* and each merge counts exactly the files it adds to the set: a related
\* file that is selected or was added for an earlier seed is not counted
C28_CountsOnlyNewFiles ==
  /\ []((config.entry = "expandContext" /\ pc # "expandContext") =>
          /\ Selection \subseteq finalUris
          /\ Cardinality(finalUris) = Cardinality(Selection) + addedCount)
  /\ [][pc = "merge" =>
          /\ finalUris \subseteq finalUris'
          /\ finalUris' \subseteq finalUris \cup Range(analysis.relatedUris)
          /\ addedCount' = addedCount + Cardinality(finalUris' \ finalUris)]_vars

\* the walk of the first of two selected files has returned the second one
\* along with other files: the merge has counted the other files only
C28_Witness ==
  /\ config.entry = "expandContext"
  /\ pc = "forSeed"
  /\ seedIndex = 2
  /\ Len(initial) = 2
  /\ initial[2] # initial[1]
  /\ initial[2] \in Range(results)
  /\ addedCount = Len(results) - 1
  /\ addedCount >= 1

(***************************************************************************)
(* Properties of the file generator.                                       *)
(***************************************************************************)
\* uri lies below the directory dir
Below(dir, uri) == StartsWith(uri, dir \o <<"/">>) /\ Len(uri) > Len(dir) + 1
HasParentSegment(p) == \E i \in DOMAIN SplitSlash(p) : SplitSlash(p)[i] = DotDot

\* C24: no path handed to createFile has a '..' segment, and every file the
\* generator writes lies below the target directory, whatever '..' segments
\* or leading '/' the detected path had; a file not written is reported as
\* skipped or error.
C24_NeverEscapesTarget ==
  generator.pc # "absent" =>
    /\ \A i \in DOMAIN generator.filesToCreate :
         ~HasParentSegment(generator.filesToCreate[i])
    /\ \A i \in DOMAIN generator.log :
         /\ generator.log[i].status \in {"created", "skipped", "error"}
         /\ generator.log[i].status = "created"
              => Below(TargetDir, generator.log[i].fileUri)
    /\ \A uri \in generator.disk \ generator.before : Below(TargetDir, uri)

\* a file was written whose detected path, joined as it stood, would have
\* left the target directory
C24_Witness ==
  /\ generator.pc = "done"
  /\ Len(generator.output) = 1
  /\ HasParentSegment(generator.output[1])
  /\ ~Below(TargetDir, joinPath(TargetDir, generator.output[1]))
  /\ Len(generator.log) = 1
  /\ generator.log[1].status = "created"

C25_SkippedLeavesDisk ==
  [][(/\ generator.pc = "create"
       /\ generator'.log # generator.log
       /\ generator'.log[Len(generator'.log)].status # "created")
       => generator'.disk = generator.disk]_vars

C25_WitnessSkipAll ==
  /\ generator.conflictStrategy = "ask"
  /\ Len(generator.log) = 2
  /\ generator.log[1].answer = "Skip All"
  /\ generator.log[2].existed
  /\ generator.log[2].status = "skipped"

(***************************************************************************)
(* Properties of the status bar.                                           *)
(***************************************************************************)
DelayedStatusShown ==
  statusBar.status \in {"success", "error"} /\ statusBar.latest # NoTimeout

\* C30: at most one revert-to-idle timer is pending, it is the one the
\* latest update scheduled, and no timer fires after a later update; a
\* 'success' or 'error' shown with a delay reverts to 'idle' unless another
\* update is made or the status bar is disposed.
C30_OnlyLatestTimerReverts ==
  /\ [](statusBar.pc # "absent" =>
          /\ Cardinality(statusBar.timers) <= 1
          /\ statusBar.timers \subseteq {statusBar.latest} \ {NoTimeout}
          /\ ~statusBar.stale)
  /\ \A n \in 0..MaxUpdates :
       (statusBar.calls = n /\ DelayedStatusShown)
         ~> (statusBar.status = "idle" \/ statusBar.calls > n
               \/ statusBar.pc = "disposed")

\* 'working' is shown after an update that cancelled a pending revert
C30_Witness ==
  /\ statusBar.status = "working"
  /\ statusBar.cleared
  /\ statusBar.timers = {}

\* a delayed status has reverted: idle, although the last call from outside
\* was not 'idle'
C30_WitnessReverted ==
  /\ statusBar.status = "idle"
  /\ statusBar.calls = 1
  /\ statusBar.nextId = 2
  /\ statusBar.pc = "shown"

====
